---- MODULE Spec2Model ----
(***************************************************************************)
(* Model of the quotes API of src/api.py: the two tables quote_model and   *)
(* vote_model, and the four request handlers Quotes.get, Quotes.post,      *)
(* Quote.delete and Vote.post, run by NProcs concurrent request workers    *)
(* against one SQLite database.                                            *)
(*                                                                         *)
(* Grain of atomicity.  Every request has its own SQLAlchemy session.  A   *)
(* SELECT is one atomic read of the committed tables (the sqlite3 driver   *)
(* opens no transaction for a SELECT).  session.commit() flushes the       *)
(* pending statements and commits them as one write transaction; SQLite    *)
(* admits one writer at a time and shows uncommitted rows to no other      *)
(* connection, so a handler's writes take effect in one atomic step, at    *)
(* its commit.  A flush that raises rolls the transaction back.            *)
(*                                                                         *)
(* The columns author and tags are carried by no handler decision and are  *)
(* left out of the rows; VoteModel.id, a surrogate key nothing reads, is   *)
(* left out too, so vote_model is a bag of (quote_id, ip_address) rows.    *)
(***************************************************************************)
EXTENDS Integers, Sequences, FiniteSets, Bags, TLC

\* quote_model  the rows of table quote_model: records [id, quote, vote]
\* vote_model   the rows of table vote_model: a bag of [quote_id, ip_address]
\* removed      history: the ids a Quote.delete has committed the removal of
\* pc           per worker, the statement its handler is at ("idle": none)
\* call         per worker, the request it runs or ran last
\* loaded       per worker, the QuoteModel instance held by its session
\* paginated    per worker, paginated.items of a listing under way
\* resp         per worker, the response it sent last ("none" while running)
VARIABLES quote_model, vote_model, removed, pc, call, loaded, paginated, resp

vars == <<quote_model, vote_model, removed, pc, call, loaded, paginated, resp>>

(* ------------------------------ bounds --------------------------------- *)
NProcs == 2
MaxId == 2
MaxVote == 2
MaxPage == 2
MaxLimit == 1

\* The request workers, each running one handler at a time.
Procs == 1..NProcs
Texts == {"", "carpe diem"}
RemoteAddrSeq == <<"", "10.0.0.1">>
RemoteAddrs == {RemoteAddrSeq[i] : i \in 1..Len(RemoteAddrSeq)}

(* --------------------------- request inputs ---------------------------- *)
\* A query-string argument: absent, the text of an integer, or other text.
Absent == [kind |-> "absent", val |-> 0]
Junk == [kind |-> "junk", val |-> 0]
Num(n) == [kind |-> "int", val |-> n]
PageArgs == {Absent, Junk} \cup {Num(n) : n \in {0, MaxPage}}
LimitArgs == {Absent, Junk} \cup {Num(n) : n \in -1..MaxLimit}

\* The JSON body of POST /api/quotes: the key quote may be missing.
Bodies == {[has |-> FALSE, quote |-> ""]} \cup {[has |-> TRUE, quote |-> t] : t \in Texts}

NoQuote == [id |-> 0, quote |-> "", vote |-> 0]
NoCall == [op |-> "none", id |-> 0, ip |-> "", body |-> [has |-> FALSE, quote |-> ""],
           page |-> Absent, limit |-> Absent]
NoResp == [kind |-> "none", quote |-> NoQuote, items |-> <<>>, total |-> 0]

(* ------------------------------ tables --------------------------------- *)
QuoteModel(id, quote, vote) == [id |-> id, quote |-> quote, vote |-> vote]
VoteModel(quote_id, ip_address) == [quote_id |-> quote_id, ip_address |-> ip_address]

SetMax(S) == CHOOSE m \in S : \A x \in S : x <= m

\* id is INTEGER PRIMARY KEY without AUTOINCREMENT: SQLite assigns the largest
\* rowid in the table plus one.
NextId(table) == IF table = {} THEN 1 ELSE SetMax({r.id : r \in table}) + 1

\* A lookup that takes the first row of the table, whatever its id.
Get_FirstRow(table, id) == IF table # {}
                           THEN CHOOSE r \in table : TRUE
                           ELSE NoQuote

\* QuoteModel.query.get(id)
Get(table, id) == IF \E r \in table : r.id = id
                  THEN CHOOSE r \in table : r.id = id
                  ELSE NoQuote

\* A ledger check that looks up the fallback identity, not the caller's.
ExistingVote_UnknownIp(votes, id, ip) == BagIn(VoteModel(id, "unknown"), votes)

\* VoteModel.query.filter_by(quote_id=id, ip_address=ip).first()
ExistingVote(votes, id, ip) == BagIn(VoteModel(id, ip), votes)

\* request.remote_addr or 'unknown'
IpAddress(remote_addr) == IF remote_addr = "" THEN "unknown" ELSE remote_addr

(* ------------------------ flush and commit ----------------------------- *)
\* What a flush leaves inside the open transaction: the error it raised
\* ("none" when it ran through) and the tables as written so far.
Flushed(err, quotes, votes) == [err |-> err, quotes |-> quotes, votes |-> votes]

\* Quotes.post, db.session.add(quote): INSERT INTO quote_model.  The column
\* quote is UNIQUE: a second row with the same text raises IntegrityError.
PostFlush(quotes, votes, text) ==
    IF \E r \in quotes : r.quote = text
    THEN Flushed("IntegrityError", quotes, votes)
    ELSE Flushed("none", quotes \cup {QuoteModel(NextId(quotes), text, 0)}, votes)

\* A vote_model without the constraint unique_vote_per_ip.
VoteFlush_NoUniqueConstraint(quotes, votes, id, ip, vote) ==
    LET matched == {r \in quotes : r.id = id}
        updated == (quotes \ matched) \cup {[r EXCEPT !.vote = vote] : r \in matched}
    IN  IF matched = {}
        THEN Flushed("StaleDataError", updated, votes)
        ELSE Flushed("none", updated, votes (+) SetToBag({VoteModel(id, ip)}))

\* An UPDATE whose row count is not checked: the ballot of a vote on a quote
\* that is gone is inserted all the same.
VoteFlush_NoRowcountCheck(quotes, votes, id, ip, vote) ==
    LET matched == {r \in quotes : r.id = id}
        updated == (quotes \ matched) \cup {[r EXCEPT !.vote = vote] : r \in matched}
    IN  IF BagIn(VoteModel(id, ip), votes)
        THEN Flushed("IntegrityError", updated, votes)
        ELSE Flushed("none", updated, votes (+) SetToBag({VoteModel(id, ip)}))

\* Vote.post, quote.vote += 1 and db.session.add(vote_record):
\* UPDATE quote_model SET vote=<vote> WHERE id=<id>, which raises
\* StaleDataError when it matches no row, then INSERT INTO vote_model, which
\* raises IntegrityError on a second (quote_id, ip_address) row.
VoteFlush(quotes, votes, id, ip, vote) ==
    LET matched == {r \in quotes : r.id = id}
        updated == (quotes \ matched) \cup {[r EXCEPT !.vote = vote] : r \in matched}
    IN  IF matched = {}
        THEN Flushed("StaleDataError", updated, votes)
        ELSE IF BagIn(VoteModel(id, ip), votes)
             THEN Flushed("IntegrityError", updated, votes)
             ELSE Flushed("none", updated, votes (+) SetToBag({VoteModel(id, ip)}))

\* Quote.delete: DELETE FROM vote_model WHERE quote_id=<id>, then
\* DELETE FROM quote_model WHERE id=<id> (a row already gone is a warning only).
DeleteFlush(quotes, votes, id) ==
    LET kept == {b \in DOMAIN votes : b.quote_id # id}
    IN  Flushed("none", {r \in quotes : r.id # id}, [b \in kept |-> votes[b]])

\* db.session.commit(): a flush that raised is rolled back.
Commit(quotes, votes, flushed) ==
    IF flushed.err = "none"
    THEN [quotes |-> flushed.quotes, votes |-> flushed.votes]
    ELSE [quotes |-> quotes, votes |-> votes]

(* ----------------------------- responses ------------------------------- *)
Abort(kind) == [kind |-> kind, quote |-> NoQuote, items |-> <<>>, total |-> 0]
Reply(quote) == [kind |-> "ok", quote |-> quote, items |-> <<>>, total |-> 0]
Listing(items, total) == [kind |-> "ok", quote |-> NoQuote, items |-> items, total |-> total]

Init ==
    /\ quote_model = {}
    /\ vote_model = EmptyBag
    /\ removed = {}
    /\ pc = [p \in Procs |-> "idle"]
    /\ call = [p \in Procs |-> NoCall]
    /\ loaded = [p \in Procs |-> NoQuote]
    /\ paginated = [p \in Procs |-> <<>>]
    /\ resp = [p \in Procs |-> NoResp]

\* A request arrives at an idle worker.
Begin(p, c) ==
    /\ pc[p] = "idle"
    /\ call' = [call EXCEPT ![p] = c]

\* The worker sends its response; the request's session goes with it.
Finish(p, r) ==
    /\ pc' = [pc EXCEPT ![p] = "idle"]
    /\ resp' = [resp EXCEPT ![p] = r]
    /\ loaded' = [loaded EXCEPT ![p] = NoQuote]

\* The handler goes on to its next statement, holding the instance row.
Goto(p, label, row) ==
    /\ pc' = [pc EXCEPT ![p] = label]
    /\ resp' = [resp EXCEPT ![p] = NoResp]
    /\ loaded' = [loaded EXCEPT ![p] = row]

\* Reading an attribute of an instance the commit expired (quote.tags) loads
\* its row again, ObjectDeletedError when the row is gone; return quote.
Refresh(p) ==
    /\ IF Get(quote_model, loaded[p].id) = NoQuote
       THEN Finish(p, Abort("ObjectDeletedError"))
       ELSE Finish(p, Reply(Get(quote_model, loaded[p].id)))
    /\ UNCHANGED <<quote_model, vote_model, removed, call, paginated>>

(* --------------------------- Vote.post --------------------------------- *)
\* quote = QuoteModel.query.get(id); 404 when there is none.
VoteGet(p, id, remote_addr) ==
    /\ Begin(p, [NoCall EXCEPT !.op = "castVote", !.id = id, !.ip = IpAddress(remote_addr)])
    /\ Get(quote_model, id).vote < MaxVote
    /\ IF Get(quote_model, id) = NoQuote
       THEN Finish(p, Abort("NotFound"))
       ELSE Goto(p, "vote_check", Get(quote_model, id))
    /\ UNCHANGED <<quote_model, vote_model, removed, paginated>>

\* existing_vote = VoteModel.query.filter_by(...).first(); 403 when there is one.
VoteCheck(p) ==
    /\ pc[p] = "vote_check"
    /\ IF ExistingVote(vote_model, call[p].id, call[p].ip)
       THEN Finish(p, Abort("AlreadyVoted"))
       ELSE Goto(p, "vote_commit", loaded[p])
    /\ UNCHANGED <<quote_model, vote_model, removed, call, paginated>>

\* db.session.add(vote_record); quote.vote += 1; db.session.commit()
VoteCommit(p) ==
    /\ pc[p] = "vote_commit"
    /\ LET flushed == VoteFlush(quote_model, vote_model, call[p].id, call[p].ip,
                                loaded[p].vote + 1)
           db == Commit(quote_model, vote_model, flushed)
       IN  /\ quote_model' = db.quotes
           /\ vote_model' = db.votes
           /\ IF flushed.err = "none"
              THEN Goto(p, "vote_refresh", loaded[p])
              ELSE Finish(p, Abort(flushed.err))
    /\ UNCHANGED <<removed, call, paginated>>

\* quote.tags = json.loads(quote.tags or "[]"); return quote, 200
VoteRefresh(p) ==
    /\ pc[p] = "vote_refresh"
    /\ Refresh(p)

(* -------------------------- Quote.delete ------------------------------- *)
\* quote = QuoteModel.query.get(id); 404 when there is none.
DeleteGet(p, id) ==
    /\ Begin(p, [NoCall EXCEPT !.op = "removeQuote", !.id = id])
    /\ IF Get(quote_model, id) = NoQuote
       THEN Finish(p, Abort("NotFound"))
       ELSE Goto(p, "delete_commit", Get(quote_model, id))
    /\ UNCHANGED <<quote_model, vote_model, removed, paginated>>

\* VoteModel.query.filter_by(quote_id=id).delete(); db.session.delete(quote);
\* db.session.commit(); return quote, 200.  The deleted instance is detached,
\* not expired: the response carries the row as it was loaded.
DeleteCommit(p) ==
    /\ pc[p] = "delete_commit"
    /\ LET flushed == DeleteFlush(quote_model, vote_model, call[p].id)
           db == Commit(quote_model, vote_model, flushed)
       IN  /\ quote_model' = db.quotes
           /\ vote_model' = db.votes
    /\ removed' = removed \cup {call[p].id}
    /\ Finish(p, Reply(loaded[p]))
    /\ UNCHANGED <<call, paginated>>

(* --------------------------- Quotes.post ------------------------------- *)
\* args = create_quote_args.parse_args(): 400 when the key quote is missing;
\* db.session.add(quote); db.session.commit()
PostCommit(p, body) ==
    /\ Begin(p, [NoCall EXCEPT !.op = "submitQuote", !.body = body])
    /\ NextId(quote_model) <= MaxId
    /\ IF ~body.has
       THEN /\ Finish(p, Abort("ValidationError"))
            /\ UNCHANGED <<quote_model, vote_model>>
       ELSE LET flushed == PostFlush(quote_model, vote_model, body.quote)
                db == Commit(quote_model, vote_model, flushed)
            IN  /\ quote_model' = db.quotes
                /\ vote_model' = db.votes
                /\ IF flushed.err = "none"
                   THEN Goto(p, "post_refresh", QuoteModel(NextId(quote_model), body.quote, 0))
                   ELSE Finish(p, Abort(flushed.err))
    /\ UNCHANGED <<removed, paginated>>

\* quote.tags = json.loads(quote.tags or "[]"); return quote, 201
PostRefresh(p) ==
    /\ pc[p] = "post_refresh"
    /\ Refresh(p)

(* ---------------------------- Quotes.get ------------------------------- *)
DefaultPage == 1
DefaultLimit == 10
FallbackPerPage == 20

\* int(request.args.get(name, default)): the default when the argument is
\* absent; ValueError on text that is no integer.
IsValueError(arg) == arg.kind = "junk"
IntArg(arg, default) == IF arg.kind = "absent" THEN default ELSE arg.val

\* paginate(..., error_out=False): a page below 1 becomes page 1.
PageOf(page) == IF page < 1 THEN 1 ELSE page

\* paginate(..., error_out=False): a negative per_page becomes 20; a per_page
\* of 0 becomes 20 in Flask-SQLAlchemy 3 and stays LIMIT 0 in Flask-SQLAlchemy 2.
PerPageOf(limit) == IF limit < 0 THEN {FallbackPerPage}
                    ELSE IF limit = 0 THEN {0, FallbackPerPage}
                    ELSE {limit}

\* QuoteModel.query.order_by(QuoteModel.vote.desc()): the rows by descending
\* vote.  The statement names no second key, so SQL leaves the order of rows
\* with equal vote open: every such order is a possible result.
OrderByVoteDesc(table) ==
    LET n == Cardinality(table)
    IN  {s \in [1..n -> table] :
            /\ \A i, j \in 1..n : i # j => s[i] # s[j]
            /\ \A i, j \in 1..n : i < j => s[i].vote >= s[j].vote}

\* A page query that leaves the OFFSET out.
LimitOffset_NoOffset(rows, page, per_page) ==
    IF per_page < Len(rows) THEN SubSeq(rows, 1, per_page) ELSE rows

\* LIMIT per_page OFFSET (page - 1) * per_page
LimitOffset(rows, page, per_page) ==
    LET first == (page - 1) * per_page + 1
        last == IF page * per_page < Len(rows) THEN page * per_page ELSE Len(rows)
    IN  IF first > last THEN <<>> ELSE SubSeq(rows, first, last)

\* page = int(...); limit = int(...); 400 on ValueError; the items query of
\* query.paginate(page=page, per_page=limit, error_out=False).
ListItems(p, page, limit) ==
    /\ Begin(p, [NoCall EXCEPT !.op = "listQuotes", !.page = page, !.limit = limit])
    /\ IF IsValueError(page) \/ IsValueError(limit)
       THEN /\ Finish(p, Abort("ValidationError"))
            /\ UNCHANGED paginated
       ELSE /\ \E rows \in OrderByVoteDesc(quote_model) :
               \E per_page \in PerPageOf(IntArg(limit, DefaultLimit)) :
                  paginated' = [paginated EXCEPT ![p] =
                      LimitOffset(rows, PageOf(IntArg(page, DefaultPage)), per_page)]
            /\ Goto(p, "list_count", NoQuote)
    /\ UNCHANGED <<quote_model, vote_model, removed>>

\* The count query of paginate (paginated.total); return {"quotes", "total"}, 200.
ListCount(p) ==
    /\ pc[p] = "list_count"
    /\ Finish(p, Listing(paginated[p], Cardinality(quote_model)))
    /\ paginated' = [paginated EXCEPT ![p] = <<>>]
    /\ UNCHANGED <<quote_model, vote_model, removed, call>>

(* --------------------------- specifications ---------------------------- *)
Writes(p) ==
    \/ \E id \in 1..MaxId, a \in RemoteAddrs : VoteGet(p, id, a)
    \/ VoteCheck(p)
    \/ VoteCommit(p)
    \/ VoteRefresh(p)
    \/ \E id \in 1..MaxId : DeleteGet(p, id)
    \/ DeleteCommit(p)
    \/ \E body \in Bodies : PostCommit(p, body)
    \/ PostRefresh(p)

Lists(p) ==
    \/ \E page \in PageArgs, limit \in LimitArgs : ListItems(p, page, limit)
    \/ ListCount(p)

\* The writing handlers, run concurrently by every worker of Procs.
Next == \E p \in Procs : Writes(p)

Spec == Init /\ [][Next]_vars

\* The listing handler reads the tables and writes none: it is run by the
\* workers Readers against every store that requests running one after the other can
\* leave behind (ids from 1 on with the removed ones missing, distinct texts,
\* one ballot of a different voter for each vote).
Stores ==
    UNION {{ {QuoteModel(i, f[i][1], f[i][2]) : i \in ids} :
                f \in [ids -> Texts \X (0..(IF MaxVote < Len(RemoteAddrSeq)
                                           THEN MaxVote ELSE Len(RemoteAddrSeq)))] } :
           ids \in SUBSET (1..MaxId)}

InitList ==
    /\ quote_model \in {t \in Stores : \A r1, r2 \in t : r1.quote = r2.quote => r1 = r2}
    /\ vote_model = SetToBag({b \in {VoteModel(r.id, IpAddress(RemoteAddrSeq[i])) :
                                        r \in quote_model, i \in 1..Len(RemoteAddrSeq)} :
                                 \E r \in quote_model, i \in 1..Len(RemoteAddrSeq) :
                                    /\ b = VoteModel(r.id, IpAddress(RemoteAddrSeq[i]))
                                    /\ i <= r.vote})
    /\ removed = {i \in 1..MaxId : /\ \E r \in quote_model : r.id > i
                                   /\ \A r \in quote_model : r.id # i}
    /\ pc = [p \in Procs |-> "idle"]
    /\ call = [p \in Procs |-> NoCall]
    /\ loaded = [p \in Procs |-> NoQuote]
    /\ paginated = [p \in Procs |-> <<>>]
    /\ resp = [p \in Procs |-> NoResp]

Reader == CHOOSE p \in Procs : \A q \in Procs : p <= q

\* Two listings can be under way or answered at a time.
Readers == {p \in Procs : p <= Reader + 1}

NextList == \E p \in Readers : Lists(p)

SpecList == InitList /\ [][NextList]_vars

\* The voting handler alone, run concurrently on one quote that was just
\* submitted, by voters of three addresses.
MoreRemoteAddrs == RemoteAddrs \cup {"10.0.0.2"}

InitVote ==
    /\ quote_model = {QuoteModel(1, "carpe diem", 0)}
    /\ vote_model = EmptyBag
    /\ removed = {}
    /\ pc = [p \in Procs |-> "idle"]
    /\ call = [p \in Procs |-> NoCall]
    /\ loaded = [p \in Procs |-> NoQuote]
    /\ paginated = [p \in Procs |-> <<>>]
    /\ resp = [p \in Procs |-> NoResp]

Votes(p) ==
    \/ \E id \in 1..MaxId, a \in MoreRemoteAddrs : VoteGet(p, id, a)
    \/ VoteCheck(p)
    \/ VoteCommit(p)
    \/ VoteRefresh(p)

NextVote == \E p \in Procs : Votes(p)

SpecVote == InitVote /\ [][NextVote]_vars

(* ------------------------- reading the state --------------------------- *)
\* The number of ballots of the ledger that reference quote id.
BallotsFor(votes, id) ==
    LET mine == {b \in DOMAIN votes : b.quote_id = id}
    IN  BagCardinality([b \in mine |-> votes[b]])

HasRow(table, id) == \E r \in table : r.id = id

\* Worker p sends a response in this step.
Responds(p) ==
    /\ pc'[p] = "idle"
    /\ pc[p] # "idle" \/ call'[p] # call[p] \/ resp'[p] # resp[p]

Failed(kind) == kind \notin {"none", "ok"}

(* ------------------------------- claims -------------------------------- *)
\* C1: in every reachable state every existing quote's vote equals the number
\* of ballots of the ledger whose quote_id is that quote.
C1_VoteCountIsBallotCount ==
    \A r \in quote_model : r.vote = BallotsFor(vote_model, r.id)

\* C2: in every reachable state the ledger holds at most one ballot for each
\* (quote_id, ip_address) pair.
C2_OneBallotPerPair ==
    \A b \in DOMAIN vote_model : vote_model[b] <= 1

\* C2 witness: two votes of one voter on one quote raced, one is in the ledger
\* and the unique constraint turned the other away at its commit.
C2_Witness ==
    \E p \in Procs :
        /\ pc[p] = "idle"
        /\ call[p].op = "castVote"
        /\ resp[p].kind = "IntegrityError"
        /\ BagIn(VoteModel(call[p].id, call[p].ip), vote_model)

\* C3: when two votes on one quote by different voters, which both loaded the
\* quote at the same vote n, have both committed, the quote's vote is n + 2.
C3_BothVotesCounted ==
    \A p1, p2 \in Procs :
        ( /\ p1 # p2
          /\ pc[p1] = "vote_refresh" /\ pc[p2] = "vote_refresh"
          /\ call[p1].id = call[p2].id
          /\ call[p1].ip # call[p2].ip
          /\ loaded[p1].vote = loaded[p2].vote )
        => Get(quote_model, call[p1].id).vote = loaded[p1].vote + 2

\* C4: when two votes of one voter on one quote run concurrently and the first
\* has committed, the commit of the second fails with AlreadyVoted and leaves
\* the quote's vote as the first left it.
C4_SecondVoteAlreadyVoted ==
    [][\A p1, p2 \in Procs :
        ( /\ p1 # p2
          /\ pc[p1] = "vote_refresh" /\ pc[p2] = "vote_commit"
          /\ call[p1].id = call[p2].id
          /\ call[p1].ip = call[p2].ip
          /\ pc'[p2] # "vote_commit" )
        => /\ resp'[p2].kind = "AlreadyVoted"
           /\ Get(quote_model', call[p2].id).vote = Get(quote_model, call[p2].id).vote]_vars

\* C5: once a vote of voter v on quote q is in the ledger it stays there while
\* q exists, and a later vote of v on q finds q, is answered AlreadyVoted at
\* its ledger check and changes neither table.
C5_RepeatedVoteRejected ==
    [][/\ \A b \in DOMAIN vote_model :
            (HasRow(quote_model, b.quote_id) /\ HasRow(quote_model', b.quote_id))
            => BagIn(b, vote_model')
       /\ \A p \in Procs, id \in 1..MaxId, a \in RemoteAddrs :
            (VoteGet(p, id, a) /\ BagIn(VoteModel(id, call'[p].ip), vote_model))
            => pc'[p] = "vote_check"
       /\ \A p \in Procs :
            ( /\ pc[p] = "vote_check" /\ pc'[p] # "vote_check"
              /\ BagIn(VoteModel(call[p].id, call[p].ip), vote_model) )
            => /\ resp'[p].kind = "AlreadyVoted"
               /\ pc'[p] = "idle"
               /\ quote_model' = quote_model
               /\ vote_model' = vote_model]_vars

\* C5 witness: a vote was answered AlreadyVoted, its ballot of an earlier vote
\* is in the ledger and the quote exists with that vote counted.
C5_Witness ==
    \E p \in Procs :
        /\ pc[p] = "idle"
        /\ call[p].op = "castVote"
        /\ resp[p].kind = "AlreadyVoted"
        /\ BagIn(VoteModel(call[p].id, call[p].ip), vote_model)
        /\ Get(quote_model, call[p].id).vote = 1

\* C6: a removeQuote(q) leaves no quote q and no ballot that references q, and
\* every castVote on q that begins after it is answered NotFound.
C6_RemovedQuoteStaysNotFound ==
    [][/\ \A p \in Procs :
            (pc[p] = "delete_commit" /\ pc'[p] = "idle")
            => /\ ~HasRow(quote_model', call[p].id)
               /\ BallotsFor(vote_model', call[p].id) = 0
       /\ \A p \in Procs, id \in 1..MaxId, a \in RemoteAddrs :
            (VoteGet(p, id, a) /\ id \in removed)
            => resp'[p].kind = "NotFound"]_vars

\* C7: no two quotes share a text, and a submitQuote whose text is the text of
\* an existing quote is answered DuplicateTextError and adds no row.
C7_DuplicateTextRejected ==
    [][/\ \A r1, r2 \in quote_model' : r1.quote = r2.quote => r1 = r2
       /\ \A p \in Procs, body \in Bodies :
            ( /\ PostCommit(p, body)
              /\ body.has
              /\ \E r \in quote_model : r.quote = body.quote )
            => /\ resp'[p].kind = "DuplicateTextError"
               /\ quote_model' = quote_model]_vars

\* The quotes by descending vote, quotes of equal vote by ascending id.
RankedById(table) ==
    CHOOSE s \in OrderByVoteDesc(table) :
        \A i, j \in 1..Len(s) : (i < j /\ s[i].vote = s[j].vote) => s[i].id < s[j].id

\* The elements of rows at the positions from through to, as far as they exist.
Positions(rows, from, to) ==
    LET last == IF to < Len(rows) THEN to ELSE Len(rows)
    IN  [i \in 1..(IF last < from THEN 0 ELSE last - from + 1) |-> rows[from + i - 1]]

\* C8: listQuotes(page, pageSize) with positive page and pageSize returns the
\* elements at positions (page-1)*pageSize+1 .. page*pageSize of the quotes
\* ordered by descending vote, equal votes by ascending id.
C8_ListedByVoteThenId ==
    \A p \in Procs :
        ( /\ pc[p] = "idle"
          /\ call[p].op = "listQuotes"
          /\ resp[p].kind = "ok"
          /\ IntArg(call[p].page, DefaultPage) >= 1
          /\ IntArg(call[p].limit, DefaultLimit) >= 1 )
        => resp[p].items =
             Positions(RankedById(quote_model),
                       (IntArg(call[p].page, DefaultPage) - 1) * IntArg(call[p].limit, DefaultLimit) + 1,
                       IntArg(call[p].page, DefaultPage) * IntArg(call[p].limit, DefaultLimit))

\* C9: a request that is answered with an error has changed neither table: the
\* step that answers changes none, and the request has not committed before.
C9_FailedRequestWroteNothing ==
    [][\A p \in Procs :
        (Responds(p) /\ Failed(resp'[p].kind))
        => /\ quote_model' = quote_model
           /\ vote_model' = vote_model
           /\ pc[p] \notin {"vote_refresh", "post_refresh"}]_vars

\* C10: every response is success or one of the four domain errors NotFound,
\* DuplicateTextError, AlreadyVoted, ValidationError.
C10_OnlyDomainErrors ==
    \A p \in Procs :
        resp[p].kind \in {"none", "ok", "NotFound", "DuplicateTextError",
                          "AlreadyVoted", "ValidationError"}

\* C11: listQuotes with a page or a pageSize that is zero or negative is
\* answered ValidationError.
C11_NonPositivePagingRejected ==
    \A p \in Procs :
        ( /\ pc[p] = "idle"
          /\ call[p].op = "listQuotes"
          /\ resp[p].kind # "none"
          /\ \/ call[p].page.kind = "int" /\ call[p].page.val <= 0
             \/ call[p].limit.kind = "int" /\ call[p].limit.val <= 0 )
        => resp[p].kind = "ValidationError"

\* C12: every listing carries a total equal to the number of quotes in the
\* store, and for a positive pageSize a page whose first position lies past
\* the last quote carries no item.
C12_TotalAndEmptyBeyondRange ==
    \A p \in Procs :
        ( /\ pc[p] = "idle"
          /\ call[p].op = "listQuotes"
          /\ resp[p].kind = "ok" )
        => /\ resp[p].total = Cardinality(quote_model)
           /\ ( /\ IntArg(call[p].page, DefaultPage) >= 1
                /\ IntArg(call[p].limit, DefaultLimit) >= 1
                /\ (IntArg(call[p].page, DefaultPage) - 1) * IntArg(call[p].limit, DefaultLimit)
                       >= Cardinality(quote_model) )
              => resp[p].items = <<>>

\* C12 witness: a store with quotes was asked for page 2 at the default
\* pageSize and answered no item and the number of its quotes.
C12_Witness ==
    \E p \in Procs :
        /\ pc[p] = "idle"
        /\ call[p].op = "listQuotes"
        /\ call[p].page = Num(2)
        /\ call[p].limit = Absent
        /\ resp[p].kind = "ok"
        /\ quote_model # {}
        /\ resp[p].items = <<>>
        /\ resp[p].total = Cardinality(quote_model)

\* The ids of the quotes in a page.
IdsOf(items) == {items[i].id : i \in 1..Len(items)}

\* C18: for one store and one positive pageSize the pages partition the
\* quotes: two different pages share no quote, and pages 1 and 2 together
\* hold every quote when the store has no more than two pages of quotes.
C18_PagesPartitionQuotes ==
    \A p1, p2 \in Procs :
        ( /\ p1 # p2
          /\ pc[p1] = "idle" /\ pc[p2] = "idle"
          /\ call[p1].op = "listQuotes" /\ call[p2].op = "listQuotes"
          /\ resp[p1].kind = "ok" /\ resp[p2].kind = "ok"
          /\ IntArg(call[p1].limit, DefaultLimit) >= 1
          /\ IntArg(call[p1].limit, DefaultLimit) = IntArg(call[p2].limit, DefaultLimit)
          /\ IntArg(call[p1].page, DefaultPage) >= 1
          /\ IntArg(call[p2].page, DefaultPage) >= 1
          /\ IntArg(call[p1].page, DefaultPage) # IntArg(call[p2].page, DefaultPage) )
        => /\ IdsOf(resp[p1].items) \cap IdsOf(resp[p2].items) = {}
           /\ ( /\ IntArg(call[p1].page, DefaultPage) + IntArg(call[p2].page, DefaultPage) = 3
                /\ Cardinality(quote_model) <= 2 * IntArg(call[p1].limit, DefaultLimit) )
              => IdsOf(resp[p1].items) \cup IdsOf(resp[p2].items) = {r.id : r \in quote_model}

\* C13: castVote and removeQuote on an id that names no quote are answered
\* NotFound at the lookup and change neither table.
C13_MissingQuoteNotFound ==
    [][\A p \in Procs, id \in 1..MaxId :
        ( /\ ~HasRow(quote_model, id)
          /\ \/ \E a \in RemoteAddrs : VoteGet(p, id, a)
             \/ DeleteGet(p, id) )
        => /\ resp'[p].kind = "NotFound"
           /\ pc'[p] = "idle"
           /\ quote_model' = quote_model
           /\ vote_model' = vote_model]_vars

\* C13 witness: with another quote in the store, a castVote and a removeQuote
\* on ids that name no quote were both answered NotFound.
C13_Witness ==
    \E p1, p2 \in Procs :
        /\ pc[p1] = "idle" /\ pc[p2] = "idle"
        /\ call[p1].op = "castVote" /\ call[p2].op = "removeQuote"
        /\ resp[p1].kind = "NotFound" /\ resp[p2].kind = "NotFound"
        /\ ~HasRow(quote_model, call[p1].id)
        /\ ~HasRow(quote_model, call[p2].id)
        /\ quote_model # {}

\* C14: every stored quote has a text that is not empty, a submitQuote with
\* the empty text is answered ValidationError and adds no row, and a created
\* quote is returned with vote 0.
C14_EmptyTextRejected ==
    [][/\ \A r \in quote_model' : r.quote # ""
       /\ \A p \in Procs, body \in Bodies :
            (PostCommit(p, body) /\ body.has /\ body.quote = "")
            => /\ resp'[p].kind = "ValidationError"
               /\ quote_model' = quote_model
       /\ \A p \in Procs :
            (pc[p] = "post_refresh" /\ pc'[p] = "idle" /\ resp'[p].kind = "ok")
            => resp'[p].quote.vote = 0]_vars

\* The ballots of the ledger that reference quote id, with their counts.
BallotsOf(votes, id) ==
    LET mine == {b \in DOMAIN votes : b.quote_id = id}
    IN  [b \in mine |-> votes[b]]

\* C15: in every step a quote that exists before and after it keeps its vote
\* and its ballots, unless the step is the commit of a castVote on it, which
\* raises the vote by exactly 1 and adds exactly the ballot of its voter.
C15_VoteChangedOnlyByCastVote ==
    [][\A r \in quote_model, s \in quote_model' :
        r.id = s.id =>
            \/ /\ s.vote = r.vote
               /\ BallotsOf(vote_model', r.id) = BallotsOf(vote_model, r.id)
            \/ \E p \in Procs :
                  /\ pc[p] = "vote_commit" /\ pc'[p] = "vote_refresh"
                  /\ call[p].id = r.id
                  /\ s.vote = r.vote + 1
                  /\ vote_model' = vote_model (+) SetToBag({VoteModel(r.id, call[p].ip)})]_vars

\* C16: no quote holds an id that a removed quote held before.
C16_IdsNeverReused ==
    \A r \in quote_model : r.id \notin removed

\* C17: every ballot of the ledger references a quote that exists.
C17_NoOrphanBallot ==
    \A b \in DOMAIN vote_model : \E r \in quote_model : r.id = b.quote_id

\* C17 witness: a castVote looked its quote up, a removeQuote then removed the
\* quote, and the vote's commit was turned away: the quote is gone and no
\* ballot of that vote is in the ledger.
C17_Witness ==
    \E p1, p2 \in Procs :
        /\ pc[p1] = "idle" /\ pc[p2] = "idle"
        /\ call[p1].op = "castVote" /\ resp[p1].kind = "StaleDataError"
        /\ call[p2].op = "removeQuote" /\ resp[p2].kind = "ok"
        /\ call[p1].id = call[p2].id
        /\ ~HasRow(quote_model, call[p1].id)
        /\ ~BagIn(VoteModel(call[p1].id, call[p1].ip), vote_model)

\* C19: the vote of every quote is at least 0 and, from one state to the
\* next, never lower than before while the quote exists.
C19_VoteNeverDecreases ==
    [][\A r \in quote_model :
        /\ r.vote >= 0
        /\ \A s \in quote_model' : s.id = r.id => s.vote >= r.vote]_vars
====
